---- MODULE Spec2Model ----
(***************************************************************************)
(* Model of src/utils/Logger.h of the Infomap package: the Log handle and   *)
(* its process-wide verbosity gate, the hideIf token, Logger's indent       *)
(* tracker and benchmark recorder, and the DEBUG_OUT macro family.          *)
(***************************************************************************)
EXTENDS Integers, Sequences, FiniteSets, TLC

\* ---------------------------------------------------------------- bounds
MaxLevel == 1
NumHandles == 2
MaxOut == 1
MaxPrecision == 1
MaxDepth == 3
MaxWidth == 2
MaxCap == 1
MaxCalls == 2

\* ------------------------------------------------------ program constants
\* std::numeric_limits<unsigned int>::max(), the default maxLevel and the
\* value an unsigned int wraps at. It stands here as the largest integer TLC
\* represents, 2^31 - 1 instead of 2^32 - 1: what the model uses of it is
\* that no unsigned int is above it.
UIntMax == 2147483647
\* The precision std::cout starts with.
DefaultPrecision == 6

Levels == (0..MaxLevel) \cup {UIntMax}
Handles == 1..NumHandles
Precisions == (1..MaxPrecision) \cup {DefaultPrecision}

VARIABLES
    s_verboseLevel,      \* Log::s_verboseLevel
    s_silent,            \* Log::s_silent, an unsigned int holding 0 or 1
    handles,             \* the Log objects alive, by slot
    precision,           \* std::cout's precision
    cout,                \* what reached std::cout, in order
    cerr,                \* what reached std::cerr, in order
    s_indentLevel,       \* Logger::s_indentLevel
    s_indentWidth,       \* Logger::s_indentWidth
    s_indentString,      \* Logger::s_indentString
    MAX_INDENT_LEVEL,    \* Logger::MAX_INDENT_LEVEL
    build,               \* the preprocessor symbols defined for this build
    s_benchmarkFilename, \* Logger::s_benchmarkFilename
    logFile,             \* the function-local static of Logger::benchmark
    files,               \* the file system: path -> content
    opens,               \* the paths SafeOutFile's constructor was run with
    calls,               \* number of Logger::benchmark calls so far
    lastOp               \* the operation that produced this state

vars == <<s_verboseLevel, s_silent, handles, precision, cout, cerr,
          s_indentLevel, s_indentWidth, s_indentString, MAX_INDENT_LEVEL,
          build, s_benchmarkFilename, logFile, files, opens, calls, lastOp>>

logVars == <<s_verboseLevel, s_silent, handles, precision>>
indentVars == <<s_indentLevel, s_indentWidth, s_indentString, MAX_INDENT_LEVEL, build>>
benchVars == <<s_benchmarkFilename, logFile, files, opens, calls>>

\* ------------------------------------------------------------ Log handle
\* A slot holding no object.
NoHandle == [live |-> FALSE, level |-> 0, maxLevel |-> 0, visible |-> FALSE, rv |-> FALSE]

\* lastOp before any operation.
NoOp == [op |-> "none"]

\* Faulty variant of Gate: the upper limit maxLevel is not tested.
GateNoMax(verbose, silent, level, maxLevel) ==
    silent = 0 /\ verbose >= level

\* The expression of Log::levelVisible(level, maxLevel) over given values of
\* s_verboseLevel and s_silent.
Gate(verbose, silent, level, maxLevel) ==
    silent = 0 /\ verbose >= level /\ verbose <= maxLevel

\* Log::levelVisible(level, maxLevel), the static one, on the current
\* configuration.
levelVisible(level, maxLevel) == Gate(s_verboseLevel, s_silent, level, maxLevel)

\* A bool stored into the unsigned int s_silent.
BoolToUInt(b) == IF b THEN 1 ELSE 0

\* Faulty variant of Emits: the append consults the current configuration.
EmitsLive(hd) == levelVisible(hd.level, hd.maxLevel)

\* The test of operator<< : the handle's own m_visible.
Emits(hd) == hd.visible

\* Faulty variant of Hidden: hide only ever narrows the old m_visible.
HiddenKeep(hd, value) == hd.visible /\ ~value

\* m_visible after hide(value).
Hidden(hd, value) == ~value /\ levelVisible(hd.level, hd.maxLevel)

\* Number of decimal digits of n >= 0.
RECURSIVE NumDigits(_)
NumDigits(n) == IF n < 10 THEN 1 ELSE 1 + NumDigits(n \div 10)

RECURSIVE Pow10(_)
Pow10(k) == IF k = 0 THEN 1 ELSE 10 * Pow10(k - 1)

\* The significant digits operator<<(double) prints for a value whose digits
\* are v, at precision p (0 counts as 1), rounding half up.
RoundTo(v, p) ==
    LET q == IF p = 0 THEN 1 ELSE p
        d == NumDigits(v)
    IN  IF q >= d THEN v
        ELSE (v + 5 * Pow10(d - q - 1)) \div Pow10(d - q)

\* What may be appended through operator<<(const T&): a double (3.146, by
\* its digits) or the directive std::setprecision(n).
Data == {[k |-> "num", v |-> 3146]} \cup {[k |-> "prec", v |-> n] : n \in Precisions}

\* std::cout << data: the stream's precision and content afterwards.
SinkPrecision(data) == IF data.k = "prec" THEN data.v ELSE precision

SinkContent(data) ==
    CASE data.k = "prec" -> cout
      [] data.k = "num"  -> Append(cout, [k |-> "num", v |-> RoundTo(data.v, precision)])
      [] OTHER           -> Append(cout, data)

\* A write that the bound on the recorded output leaves room for.
Room(data) == data.k = "prec" \/ Len(cout) < MaxOut

\* Log::Log(level, maxLevel). temp says whether the object is a temporary
\* written inline (Log(0) << ...) rather than a named variable; the
\* expression naming a temporary is an rvalue until its first append.
LogConstruct(h, level, maxLevel, temp) ==
    /\ ~handles[h].live
    /\ handles' = [handles EXCEPT ![h] =
            [live |-> TRUE, level |-> level, maxLevel |-> maxLevel,
             visible |-> levelVisible(level, maxLevel), rv |-> temp]]
    /\ lastOp' = [op |-> "Log", h |-> h]
    /\ UNCHANGED <<s_verboseLevel, s_silent, precision, cout, cerr, indentVars, benchVars>>

\* Log::Log(const Log& other): a named copy.
LogCopy(h, other) ==
    /\ ~handles[h].live
    /\ handles[other].live
    /\ handles' = [handles EXCEPT ![h] =
            [live |-> TRUE, level |-> handles[other].level,
             maxLevel |-> handles[other].maxLevel,
             visible |-> handles[other].visible, rv |-> FALSE]]
    /\ lastOp' = [op |-> "LogCopy", h |-> h, other |-> other]
    /\ UNCHANGED <<s_verboseLevel, s_silent, precision, cout, cerr, indentVars, benchVars>>

\* Log::operator=(const Log& other) on a named handle.
LogAssign(h, other) ==
    /\ handles[h].live /\ ~handles[h].rv
    /\ handles[other].live
    /\ handles' = [handles EXCEPT ![h].level = handles[other].level,
                                  ![h].maxLevel = handles[other].maxLevel,
                                  ![h].visible = handles[other].visible]
    /\ lastOp' = [op |-> "LogAssign", h |-> h, other |-> other]
    /\ UNCHANGED <<s_verboseLevel, s_silent, precision, cout, cerr, indentVars, benchVars>>

\* The end of the handle's lifetime (end of the statement or the scope).
LogDestroy(h) ==
    /\ handles[h].live
    /\ handles' = [handles EXCEPT ![h] = NoHandle]
    /\ lastOp' = [op |-> "~Log", h |-> h]
    /\ UNCHANGED <<s_verboseLevel, s_silent, precision, cout, cerr, indentVars, benchVars>>

\* Log::hide(value) on a named handle. (On a temporary the call ends the
\* statement, hide returning void, and nothing can observe its effect.)
hide(h, value) ==
    /\ handles[h].live /\ ~handles[h].rv
    /\ handles' = [handles EXCEPT ![h].visible = Hidden(handles[h], value)]
    /\ lastOp' = [op |-> "hide", h |-> h, value |-> value]
    /\ UNCHANGED <<s_verboseLevel, s_silent, precision, cout, cerr, indentVars, benchVars>>

\* Log::operator<<(const T& data); the result is an lvalue.
AppendData(h, data) ==
    /\ handles[h].live
    /\ Emits(handles[h]) => Room(data)
    /\ IF Emits(handles[h])
         THEN /\ precision' = SinkPrecision(data)
              /\ cout' = SinkContent(data)
         ELSE UNCHANGED <<precision, cout>>
    /\ handles' = [handles EXCEPT ![h].rv = FALSE]
    /\ lastOp' = [op |-> "<<", h |-> h, data |-> data, emitted |-> Emits(handles[h])]
    /\ UNCHANGED <<s_verboseLevel, s_silent, cerr, indentVars, benchVars>>

\* Log::operator<<(std::ostream& (*f)(std::ostream&)), with f = std::endl.
AppendManip(h) ==
    /\ handles[h].live
    /\ Emits(handles[h]) => Len(cout) < MaxOut
    /\ IF Emits(handles[h])
         THEN cout' = Append(cout, [k |-> "endl", v |-> 0])
         ELSE UNCHANGED cout
    /\ handles' = [handles EXCEPT ![h].rv = FALSE]
    /\ lastOp' = [op |-> "<<endl", h |-> h, emitted |-> Emits(handles[h])]
    /\ UNCHANGED <<s_verboseLevel, s_silent, precision, cerr, indentVars, benchVars>>

\* The candidates overload resolution keeps for  log << hideIf(p):  the
\* member Log::operator<<(const hideIf&) always, and hideIf's friend
\* operator<<(Log&, const hideIf&) when the left operand is an lvalue (a
\* Log& does not bind to a temporary). The member template is a worse match
\* than either.
HideIfCandidates(isRvalue) ==
    IF isRvalue THEN {"member"} ELSE {"member", "friend"}

\* log << hideIf(p). With two equally good candidates the call is ambiguous
\* and the program does not compile, so the only call a running program
\* makes is on a temporary before its first append, and it runs the member,
\* which returns *this and does nothing else.
AppendHideIf(h, p) ==
    /\ handles[h].live
    /\ HideIfCandidates(handles[h].rv) = {"member"}
    /\ handles' = [handles EXCEPT ![h].rv = FALSE]
    /\ lastOp' = [op |-> "<<hideIf", h |-> h, value |-> p]
    /\ UNCHANGED <<s_verboseLevel, s_silent, precision, cout, cerr, indentVars, benchVars>>

\* Log::setVerboseLevel(level).
setVerboseLevel(level) ==
    /\ s_verboseLevel' = level
    /\ lastOp' = [op |-> "setVerboseLevel", level |-> level]
    /\ UNCHANGED <<s_silent, handles, precision, cout, cerr, indentVars, benchVars>>

\* Log::setSilent(silent).
setSilent(silent) ==
    /\ s_silent' = BoolToUInt(silent)
    /\ lastOp' = [op |-> "setSilent", silent |-> silent]
    /\ UNCHANGED <<s_verboseLevel, handles, precision, cout, cerr, indentVars, benchVars>>

\* Log::init(verboseLevel, silent, numberPrecision): the two setters, then
\* std::setprecision appended to a temporary Log() built under the new
\* configuration.
init(verboseLevel, silent, numberPrecision) ==
    LET tmp == [live |-> TRUE, level |-> 0, maxLevel |-> UIntMax,
                visible |-> Gate(verboseLevel, BoolToUInt(silent), 0, UIntMax),
                rv |-> TRUE]
    IN  /\ s_verboseLevel' = verboseLevel
        /\ s_silent' = BoolToUInt(silent)
        /\ precision' = IF tmp.visible THEN numberPrecision ELSE precision
        /\ lastOp' = [op |-> "init", level |-> verboseLevel, silent |-> silent,
                      precision |-> numberPrecision]
        /\ UNCHANGED <<handles, cout, cerr, indentVars, benchVars>>

\* ---------------------------------------------------------- indentation
\* ++n on an unsigned int.
Incremented(n) == IF n = UIntMax THEN 0 ELSE n + 1

\* s_indentLevel * s_indentWidth (the product stays far below the wrap of
\* unsigned int for the depths and widths reached here).
IndentLength == s_indentLevel * s_indentWidth

\* std::string(n, ' ').
Spaces(n) == [i \in 1..n |-> " "]

\* Faulty variant of RefreshedIndent: the cache is rebuilt only when too
\* short.
RefreshedIndentGrowOnly ==
    IF Len(s_indentString) < IndentLength
        THEN Spaces(IndentLength)
        ELSE s_indentString

\* s_indentString as Logger::indent() leaves and returns it.
RefreshedIndent ==
    IF Len(s_indentString) # IndentLength
        THEN Spaces(IndentLength)
        ELSE s_indentString

\* s_indentLevel after popIndentLevel().
Popped == IF s_indentLevel = 0 THEN 0 ELSE s_indentLevel - 1

PopWarning == "Warning: Calling Logger::popIndentLevel when already zero!"

\* Logger::pushIndentLevel().
pushIndentLevel ==
    /\ s_indentLevel < MaxDepth
    /\ s_indentLevel' = Incremented(s_indentLevel)
    /\ lastOp' = [op |-> "pushIndentLevel"]
    /\ UNCHANGED <<logVars, cout, cerr, s_indentWidth, s_indentString,
                   MAX_INDENT_LEVEL, build, benchVars>>

\* Logger::popIndentLevel().
popIndentLevel ==
    /\ s_indentLevel = 0 => Len(cerr) < MaxOut
    /\ s_indentLevel' = Popped
    /\ cerr' = IF s_indentLevel = 0 THEN Append(cerr, PopWarning) ELSE cerr
    /\ lastOp' = [op |-> "popIndentLevel"]
    /\ UNCHANGED <<logVars, cout, s_indentWidth, s_indentString,
                   MAX_INDENT_LEVEL, build, benchVars>>

\* Logger::indent().
indent ==
    /\ s_indentString' = RefreshedIndent
    /\ lastOp' = [op |-> "indent", ret |-> RefreshedIndent]
    /\ UNCHANGED <<logVars, cout, cerr, s_indentLevel, s_indentWidth,
                   MAX_INDENT_LEVEL, build, benchVars>>

\* ------------------------------------------------------------ the macros
\* The preprocessor symbols a build may define (lines 236-239 are the panel
\* where they are switched; RELEASE comes from the compiler's command line).
Builds == [RELEASE : BOOLEAN, NO_DEBUG_LOGGING : BOOLEAN, USE_LOGGER_TIME : BOOLEAN,
           USE_FUNCTION_LOGGER : BOOLEAN, USE_PRETTY_FUNCTION_LOGGER : BOOLEAN]

\* The header as it stands: only NO_DEBUG_LOGGING is defined.
SourceBuild == [RELEASE |-> FALSE, NO_DEBUG_LOGGING |-> TRUE, USE_LOGGER_TIME |-> FALSE,
                USE_FUNCTION_LOGGER |-> FALSE, USE_PRETTY_FUNCTION_LOGGER |-> FALSE]

\* What DEBUG_OUT expands to.
DebugOutMacro ==
    IF build.RELEASE \/ build.NO_DEBUG_LOGGING THEN "elided"
    ELSE IF build.USE_PRETTY_FUNCTION_LOGGER THEN "LOGGER_OUT_WITH_PRETTY_FUNCTION_NAME"
    ELSE IF build.USE_FUNCTION_LOGGER THEN "LOGGER_OUT_WITH_FUNCTION_NAME"
    ELSE "LOGGER_OUT"

\* LOGGER_TIME << ... : the pieces it puts on the stream.
LOGGER_TIME == IF build.USE_LOGGER_TIME THEN <<"__TIME__", " ">> ELSE <<>>

\* A DEBUG_OUT(x) call site. LOGGER_OUT tests the depth and writes the
\* indentation; the two function-name macros do neither.
DEBUG_OUT ==
    /\ Len(cout) < MaxOut
    /\ CASE DebugOutMacro = "elided" ->
              /\ lastOp' = [op |-> "DEBUG_OUT", emitted |-> FALSE]
              /\ UNCHANGED <<cout, s_indentString>>
         [] DebugOutMacro = "LOGGER_OUT" ->
              IF s_indentLevel <= MAX_INDENT_LEVEL
                THEN /\ s_indentString' = RefreshedIndent
                     /\ cout' = Append(cout, RefreshedIndent \o LOGGER_TIME \o <<"x">>)
                     /\ lastOp' = [op |-> "DEBUG_OUT", emitted |-> TRUE]
                ELSE /\ lastOp' = [op |-> "DEBUG_OUT", emitted |-> FALSE]
                     /\ UNCHANGED <<cout, s_indentString>>
         [] DebugOutMacro = "LOGGER_OUT_WITH_FUNCTION_NAME" ->
              /\ cout' = Append(cout, LOGGER_TIME \o <<"@", "__FUNCTION__", ": ", "x">>)
              /\ lastOp' = [op |-> "DEBUG_OUT", emitted |-> TRUE]
              /\ UNCHANGED s_indentString
         [] OTHER ->
              /\ cout' = Append(cout, LOGGER_TIME \o <<"@", "__PRETTY_FUNCTION__", ": ", "x">>)
              /\ lastOp' = [op |-> "DEBUG_OUT", emitted |-> TRUE]
              /\ UNCHANGED s_indentString
    /\ UNCHANGED <<logVars, cerr, s_indentLevel, s_indentWidth, MAX_INDENT_LEVEL,
                   build, benchVars>>

\* An INDENTED_RELEASE_OUT(x) call site; the macro exists only when RELEASE
\* or NO_DEBUG_LOGGING is defined.
INDENTED_RELEASE_OUT ==
    /\ build.RELEASE \/ build.NO_DEBUG_LOGGING
    /\ Len(cout) < MaxOut
    /\ IF s_indentLevel <= MAX_INDENT_LEVEL
         THEN /\ s_indentString' = RefreshedIndent
              /\ cout' = Append(cout, RefreshedIndent \o <<"x">>)
              /\ lastOp' = [op |-> "INDENTED_RELEASE_OUT", emitted |-> TRUE]
         ELSE /\ lastOp' = [op |-> "INDENTED_RELEASE_OUT", emitted |-> FALSE]
              /\ UNCHANGED <<cout, s_indentString>>
    /\ UNCHANGED <<logVars, cerr, s_indentLevel, s_indentWidth, MAX_INDENT_LEVEL,
                   build, benchVars>>

\* ------------------------------------------------------ benchmark records
Paths == {"", "a.tsv", "b.tsv"}

NoFile == [exists |-> FALSE, data |-> <<>>]

Digits == <<"0", "1", "2", "3", "4", "5", "6", "7", "8", "9">>

\* operator<<(unsigned int): the decimal digits of n.
RECURSIVE RenderUInt(_)
RenderUInt(n) ==
    IF n < 10 THEN <<Digits[n + 1]>>
    ELSE RenderUInt(n \div 10) \o <<Digits[(n % 10) + 1]>>

\* The decimals of a fraction of f thousandths, trailing zeros dropped.
Decimals(f) ==
    IF f % 100 = 0 THEN <<Digits[(f \div 100) + 1]>>
    ELSE IF f % 10 = 0 THEN <<Digits[(f \div 100) + 1], Digits[((f \div 10) % 10) + 1]>>
    ELSE <<Digits[(f \div 100) + 1], Digits[((f \div 10) % 10) + 1], Digits[(f % 10) + 1]>>

\* operator<<(double) at the file stream's precision of 6, for a value of m
\* thousandths below 1000: at most six significant digits, so all are
\* printed, and no exponent.
RenderDouble(m) ==
    IF m % 1000 = 0 THEN RenderUInt(m \div 1000)
    ELSE RenderUInt(m \div 1000) \o <<".">> \o Decimals(m % 1000)

\* Faulty variant of Record: the tag is written as the last field.
RecordTagLast(tag, codelength, counts, writeOnlyTag, elapsed) ==
    IF writeOnlyTag
        THEN tag \o <<"\n">>
        ELSE RenderDouble(elapsed) \o <<"\t">> \o RenderDouble(codelength) \o <<"\t">> \o
             RenderUInt(counts[1]) \o <<"\t">> \o RenderUInt(counts[2]) \o <<"\t">> \o
             RenderUInt(counts[3]) \o <<"\t">> \o tag \o <<"\n">>

\* The characters one benchmark call writes; counts holds numTopModules,
\* numNonTrivialTopModules and numLevels.
Record(tag, codelength, counts, writeOnlyTag, elapsed) ==
    IF writeOnlyTag
        THEN tag \o <<"\n">>
        ELSE RenderDouble(elapsed) \o <<"\t">> \o tag \o <<"\t">> \o
             RenderDouble(codelength) \o <<"\t">> \o
             RenderUInt(counts[1]) \o <<"\t">> \o RenderUInt(counts[2]) \o <<"\t">> \o
             RenderUInt(counts[3]) \o <<"\n">>

\* SafeOutFile(path): the stream after construction. Opening fails on the
\* empty path, and otherwise when the file system refuses (ok = FALSE); a
\* failed open leaves a closed stream and raises nothing.
SafeOutFile(path, ok) == [init |-> TRUE, path |-> path, open |-> (path # "" /\ ok)]

\* Faulty variants of NeedsOpen: the file is opened again when the configured
\* name has changed, or when the earlier open failed.
NeedsOpenOnNewName == ~logFile.init \/ logFile.path # s_benchmarkFilename

NeedsOpenOnFailure == ~logFile.init \/ ~logFile.open

\* Whether this call runs the initialiser of the function-local static.
NeedsOpen == ~logFile.init

\* logFile.is_open().
IsOpen(lf) == lf.open

Tags == {<<>>, <<"t">>, <<"a", "\t", "b">>, <<"a", "\n", "b">>}
Codelengths == {3141}
Counts == {<<5, 4, 12>>}
Elapsed == {0, 1500}

\* Logger::setBenchmarkFilename(filename).
setBenchmarkFilename(filename) ==
    /\ s_benchmarkFilename' = filename
    /\ lastOp' = [op |-> "setBenchmarkFilename", filename |-> filename]
    /\ UNCHANGED <<logVars, cout, cerr, indentVars, logFile, files, opens, calls>>

\* Logger::benchmark(...). elapsed is what Stopwatch returns; ok is whether
\* the file system lets the file be opened, read only by the call that
\* opens it. Opening creates the file or truncates it.
benchmark(tag, codelength, counts, writeOnlyTag, elapsed, ok) ==
    LET lf == IF NeedsOpen THEN SafeOutFile(s_benchmarkFilename, ok) ELSE logFile
        opened == IF NeedsOpen /\ lf.open
                    THEN [files EXCEPT ![lf.path] = [exists |-> TRUE, data |-> <<>>]]
                    ELSE files
        rec == Record(tag, codelength, counts, writeOnlyTag, elapsed)
    IN  /\ calls < MaxCalls
        /\ ~NeedsOpen => ok
        /\ calls' = calls + 1
        /\ logFile' = lf
        /\ opens' = IF NeedsOpen THEN Append(opens, s_benchmarkFilename) ELSE opens
        /\ files' = IF IsOpen(lf)
                       THEN [opened EXCEPT ![lf.path] =
                               [exists |-> TRUE, data |-> opened[lf.path].data \o rec]]
                       ELSE opened
        /\ lastOp' = [op |-> "benchmark", tag |-> tag, codelength |-> codelength,
                      counts |-> counts, writeOnlyTag |-> writeOnlyTag,
                      elapsed |-> elapsed, before |-> opened[lf.path].data]
        /\ UNCHANGED <<logVars, cout, cerr, indentVars, s_benchmarkFilename>>

\* ------------------------------------------------------- specifications
\* The state at the start of the process. The header declares the static
\* members and leaves their definitions to a source file: the counters start
\* at zero and the strings empty, the function-local logFile is not yet
\* constructed, and no Log object exists.
InitVars ==
    /\ s_verboseLevel = 0
    /\ s_silent = 0
    /\ handles = [h \in Handles |-> NoHandle]
    /\ precision = DefaultPrecision
    /\ cout = <<>>
    /\ cerr = <<>>
    /\ s_indentLevel = 0
    /\ s_indentString = <<>>
    /\ s_benchmarkFilename = ""
    /\ logFile = [init |-> FALSE, path |-> "", open |-> FALSE]
    /\ files = [p \in Paths |-> NoFile]
    /\ opens = <<>>
    /\ calls = 0
    /\ lastOp = NoOp

\* The process at start, for any build and any value the definitions of
\* s_indentWidth and MAX_INDENT_LEVEL give them.
Init ==
    /\ InitVars
    /\ s_indentWidth \in 0..MaxWidth
    /\ MAX_INDENT_LEVEL \in 0..MaxCap
    /\ build \in Builds

\* The process at start in the build the header selects as it stands, with
\* one choice of s_indentWidth and MAX_INDENT_LEVEL (no operation on Log
\* handles or on the benchmark file reads either).
InitSource ==
    /\ InitVars
    /\ s_indentWidth = MaxWidth
    /\ MAX_INDENT_LEVEL = MaxCap
    /\ build = SourceBuild

NextLog ==
    \/ \E h \in Handles, level \in Levels, maxLevel \in Levels, temp \in BOOLEAN :
            LogConstruct(h, level, maxLevel, temp)
    \/ \E h \in Handles, other \in Handles : LogCopy(h, other)
    \/ \E h \in Handles, other \in Handles : LogAssign(h, other)
    \/ \E h \in Handles : LogDestroy(h)
    \/ \E h \in Handles, value \in BOOLEAN : hide(h, value)
    \/ \E h \in Handles, data \in Data : AppendData(h, data)
    \/ \E h \in Handles : AppendManip(h)
    \/ \E h \in Handles, p \in BOOLEAN : AppendHideIf(h, p)
    \/ \E level \in Levels : setVerboseLevel(level)
    \/ \E silent \in BOOLEAN : setSilent(silent)
    \/ \E level \in Levels, silent \in BOOLEAN, p \in Precisions : init(level, silent, p)

NextIndent ==
    \/ pushIndentLevel
    \/ popIndentLevel
    \/ indent
    \/ DEBUG_OUT
    \/ INDENTED_RELEASE_OUT

NextBench ==
    \/ \E filename \in Paths : setBenchmarkFilename(filename)
    \/ \E tag \in Tags, codelength \in Codelengths, counts \in Counts,
          writeOnlyTag \in BOOLEAN, elapsed \in Elapsed, ok \in BOOLEAN :
            benchmark(tag, codelength, counts, writeOnlyTag, elapsed, ok)
    \/ \E level \in Levels : setVerboseLevel(level)
    \/ \E silent \in BOOLEAN : setSilent(silent)
    \/ pushIndentLevel

Next == NextLog \/ NextIndent \/ NextBench

\* The whole program.
Spec == Init /\ [][Next]_vars

\* The Log handles and the verbosity gate.
SpecLog == InitSource /\ [][NextLog]_vars

\* The indent tracker and the macros, over every build selection.
SpecIndent == Init /\ [][NextIndent]_vars

\* The benchmark recorder, with the rest of the logger state changing.
SpecBench == InitSource /\ [][NextBench]_vars

\* ================================================================ claims
ConfigOps == {"setVerboseLevel", "setSilent", "init"}

\* The handle the last operation acted on.
Target == handles[lastOp.h]

\* The level/silence criterion of a handle, from its fields and the current
\* configuration.
Criterion(hd) ==
    /\ s_silent = 0
    /\ hd.level <= s_verboseLevel
    /\ s_verboseLevel <= hd.maxLevel

\* C1: a handle just constructed with (level, maxLevel) is visible exactly
\* when the configuration is not silent and level <= verboseLevel <=
\* maxLevel; under silence it is invisible, and with the default maxLevel
\* and no silence it is visible iff level <= verboseLevel.
C1_VisibleAtConstruction ==
    lastOp.op = "Log" =>
        /\ Target.visible = Criterion(Target)
        /\ s_silent # 0 => ~Target.visible
        /\ (s_silent = 0 /\ Target.maxLevel = UIntMax) =>
                (Target.visible = (Target.level <= s_verboseLevel))

\* A handle constructed visible with a maxLevel that is not the default.
C1_Witness ==
    /\ lastOp.op = "Log"
    /\ Target.visible
    /\ Target.maxLevel # UIntMax
    /\ Target.level > 0

\* What C2_Snapshot asks of one step.
C2_SnapshotStep ==
    /\ lastOp'.op \in ConfigOps => handles' = handles
    /\ lastOp'.op \in {"LogCopy", "LogAssign"} =>
            handles'[lastOp'.h].visible = handles[lastOp'.other].visible
    /\ lastOp'.op = "<<endl" =>
            (cout' # cout) = handles[lastOp'.h].visible
    /\ (lastOp'.op = "<<" /\ lastOp'.data.k = "num") =>
            (cout' # cout) = handles[lastOp'.h].visible
    /\ (lastOp'.op = "<<" /\ lastOp'.data.k = "prec") =>
            precision' = IF handles[lastOp'.h].visible THEN lastOp'.data.v ELSE precision

\* C2: setVerboseLevel, setSilent and init leave every handle as it was; a
\* copy or an assignment takes the other handle's visible flag; and an
\* append reaches the sink exactly when the handle's visible flag is set.
C2_Snapshot == [][C2_SnapshotStep]_vars

\* A handle has just emitted although the configuration, changed since its
\* construction, now excludes it.
C2_Witness ==
    /\ lastOp.op = "<<endl"
    /\ lastOp.emitted
    /\ cout # <<>>
    /\ ~Criterion(Target)

\* C3: after hide(flag) the handle is visible exactly when flag is false and
\* the criterion holds of the configuration current at the call, whatever
\* its visible flag was before.
C3_HideRecomputes ==
    lastOp.op = "hide" =>
        /\ Target.visible = (~lastOp.value /\ Criterion(Target))
        /\ ~Criterion(Target) => ~Target.visible

\* hide(false) has left a handle visible.
C3_Witness ==
    /\ lastOp.op = "hide"
    /\ ~lastOp.value
    /\ Target.visible

\* What C4_HideIfHides asks of one step.
C4_HideIfStep ==
    /\ lastOp'.op = "<<hideIf" =>
            handles'[lastOp'.h].visible =
                (~lastOp'.value /\ Criterion(handles[lastOp'.h]))
    /\ (lastOp.op = "<<hideIf" /\ lastOp'.op = "<<endl" /\ lastOp'.h = lastOp.h) =>
            (cout' # cout) = (~lastOp.value /\ Criterion(handles[lastOp.h]))

\* C4: appending hideIf(p) calls hide(p) on the handle, and what is appended
\* next in the same statement is emitted iff p is false and the criterion
\* holds.
C4_HideIfHides == [][C4_HideIfStep]_vars

\* C5: after init(level, silent, precision) the verbosity level is level,
\* the silence flag is silent and the sink's precision is precision.
C5_InitApplies ==
    lastOp.op = "init" =>
        /\ s_verboseLevel = lastOp.level
        /\ (s_silent # 0) = lastOp.silent
        /\ precision = lastOp.precision

\* What C6_Indent asks of one step.
C6_IndentStep ==
    /\ s_indentLevel' >= 0
    /\ lastOp'.op = "popIndentLevel" =>
            IF s_indentLevel = 0
                THEN /\ s_indentLevel' = 0
                     /\ cerr' = Append(cerr, PopWarning)
                     /\ cout' = cout
                ELSE /\ s_indentLevel' = s_indentLevel - 1
                     /\ cerr' = cerr
    /\ lastOp'.op = "pushIndentLevel" => s_indentLevel' = s_indentLevel + 1
    /\ lastOp'.op = "indent" =>
            /\ Len(lastOp'.ret) = s_indentLevel * s_indentWidth
            /\ \A i \in 1..Len(lastOp'.ret) : lastOp'.ret[i] = " "
            /\ s_indentLevel' = s_indentLevel

\* C6: a pop at depth 0 leaves the depth at 0 and writes the warning to the
\* error channel and nothing to the log sink; any other pop takes exactly 1
\* off, a push adds exactly 1; and indent() returns depth * width spaces.
C6_Indent == [][C6_IndentStep]_vars

\* indent() has returned a shorter text than the cache held before, after a
\* pop at depth 0 was reported.
C6_Witness ==
    /\ lastOp.op = "indent"
    /\ cerr # <<>>
    /\ s_indentLevel = 1
    /\ Len(lastOp.ret) = s_indentWidth
    /\ s_indentWidth > 1

\* What C7_OpenOnce asks of one step.
C7_OpenOnceStep ==
    /\ lastOp'.op = "benchmark" =>
            /\ opens' = IF calls = 0 THEN <<s_benchmarkFilename>> ELSE opens
            /\ Len(opens') = 1
            /\ logFile'.path = opens'[1]
            /\ \A p \in Paths \ {opens'[1]} : files'[p] = files[p]
    /\ lastOp'.op # "benchmark" => (opens' = opens /\ files' = files /\ logFile' = logFile)
    /\ (calls = 0) = (opens = <<>>)

\* C7: the first benchmark call opens the file named by the current
\* s_benchmarkFilename; no other step opens anything, and every call writes
\* nowhere but to that first file.
C7_OpenOnce == [][C7_OpenOnceStep]_vars

\* A second record has gone to the first file after the name was changed.
C7_Witness ==
    /\ lastOp.op = "benchmark"
    /\ opens = <<"a.tsv">>
    /\ s_benchmarkFilename = "b.tsv"
    /\ lastOp.before # <<>>
    /\ Len(files["a.tsv"].data) > Len(lastOp.before)
    /\ ~files["b.tsv"].exists

\* What C8_FailedOpen asks of one step.
C8_FailedOpenStep ==
    /\ (logFile.init /\ ~logFile.open) =>
            (logFile' = logFile /\ opens' = opens /\ files' = files)
    /\ (lastOp'.op = "benchmark" /\ ~logFile'.open) =>
            /\ files' = files
            /\ Len(opens') = 1
            /\ UNCHANGED <<s_verboseLevel, s_silent, s_indentLevel, cout, cerr>>

\* C8: once the open has failed the stream stays closed and is not opened
\* again, and a benchmark call on the closed stream writes nothing and
\* leaves verbosity, silence, indent depth and both channels alone.
C8_FailedOpen == [][C8_FailedOpenStep]_vars

\* A second call on the closed stream, with a file name set meanwhile and
\* the rest of the logger state away from its initial values.
C8_Witness ==
    /\ lastOp.op = "benchmark"
    /\ calls = 2
    /\ logFile.init /\ ~logFile.open
    /\ s_benchmarkFilename # logFile.path
    /\ s_indentLevel > 0 /\ s_silent # 0 /\ s_verboseLevel > 0

\* The fields of s cut at each sep.
RECURSIVE SplitOn(_, _)
SplitOn(s, sep) ==
    IF \A i \in 1..Len(s) : s[i] # sep THEN <<s>>
    ELSE LET i == CHOOSE i \in 1..Len(s) : s[i] = sep /\ \A j \in 1..(i - 1) : s[j] # sep
         IN  <<SubSeq(s, 1, i - 1)>> \o SplitOn(SubSeq(s, i + 1, Len(s)), sep)

\* Whether the text ends with a newline (or is empty).
Terminated(text) == text = <<>> \/ text[Len(text)] = "\n"

\* The records of a text: its newline-terminated lines, each cut at the tabs.
Records(text) ==
    LET lines == SplitOn(text, "\n")
    IN  [i \in 1..(Len(lines) - 1) |-> SplitOn(lines[i], "\t")]

DigitValue(c) == CHOOSE d \in 0..9 : Digits[d + 1] = c

IsNumber(s) == s # <<>> /\ \A i \in 1..Len(s) : \E d \in 0..9 : Digits[d + 1] = s[i]

RECURSIVE ParseUInt(_)
ParseUInt(s) ==
    IF s = <<>> THEN 0
    ELSE 10 * ParseUInt(SubSeq(s, 1, Len(s) - 1)) + DigitValue(s[Len(s)])

\* The thousandths a decimal rendering with at most three decimals denotes;
\* -1 when it is no such rendering.
ParseDouble(s) ==
    LET parts == SplitOn(s, ".")
    IN  IF Len(parts) = 1 /\ IsNumber(parts[1]) THEN 1000 * ParseUInt(parts[1])
        ELSE IF Len(parts) = 2 /\ IsNumber(parts[1]) /\ IsNumber(parts[2]) /\ Len(parts[2]) <= 3
            THEN 1000 * ParseUInt(parts[1]) + ParseUInt(parts[2]) * Pow10(3 - Len(parts[2]))
        ELSE -1

ParseCount(s) == IF IsNumber(s) THEN ParseUInt(s) ELSE -1

\* The last benchmark call added exactly one newline-terminated record after
\* the earlier content: one field equal to tag with writeOnlyTag, and
\* otherwise the six fields elapsed, tag, codelength and the three counts.
RecordAppended ==
    LET text == files[logFile.path].data
        before == lastOp.before
        recs == Records(text)
        rec == recs[Len(recs)]
    IN  /\ Len(text) > Len(before)
        /\ SubSeq(text, 1, Len(before)) = before
        /\ Terminated(text)
        /\ Len(recs) = Len(Records(before)) + 1
        /\ \A i \in 1..Len(Records(before)) : recs[i] = Records(before)[i]
        /\ IF lastOp.writeOnlyTag
             THEN rec = <<lastOp.tag>>
             ELSE /\ Len(rec) = 6
                  /\ ParseDouble(rec[1]) = lastOp.elapsed
                  /\ rec[2] = lastOp.tag
                  /\ ParseDouble(rec[3]) = lastOp.codelength
                  /\ ParseCount(rec[4]) = lastOp.counts[1]
                  /\ ParseCount(rec[5]) = lastOp.counts[2]
                  /\ ParseCount(rec[6]) = lastOp.counts[3]

CleanTag(tag) == \A i \in 1..Len(tag) : tag[i] \notin {"\t", "\n"}

\* C9 as stated: with the file open, every benchmark call appends exactly
\* one record of one field (tag) or of the six fields in order.
C9_RecordAppended ==
    (lastOp.op = "benchmark" /\ logFile.open) => RecordAppended

\* C9 amended: the same, for a tag that holds no tab and no newline.
C9_RecordAppendedCleanTag ==
    (lastOp.op = "benchmark" /\ logFile.open /\ CleanTag(lastOp.tag)) => RecordAppended

\* A six-field record has been appended after an earlier record.
C9_Witness ==
    /\ lastOp.op = "benchmark"
    /\ logFile.open
    /\ CleanTag(lastOp.tag) /\ lastOp.tag # <<>>
    /\ ~lastOp.writeOnlyTag
    /\ lastOp.before # <<>>
    /\ lastOp.elapsed > 0

\* C10: whenever DEBUG_OUT is compiled in, a call site emits only at a depth
\* within MAX_INDENT_LEVEL, and what it emits starts with the indentation.
C10_DebugOutGated ==
    (lastOp.op = "DEBUG_OUT" /\ lastOp.emitted) =>
        /\ s_indentLevel <= MAX_INDENT_LEVEL
        /\ Len(cout[Len(cout)]) > IndentLength
        /\ SubSeq(cout[Len(cout)], 1, IndentLength) = Spaces(IndentLength)

====
